---------------------------- MODULE Spec2Model ----------------------------
(***************************************************************************)
(* Requirement_Agent, ai-service: four HTTP services (main.py,             *)
(* simple_ai.py, working_ai.py, demo_ai.py) that wrap a document in a      *)
(* prompt, call a chat-completion provider and extract a JSON object from  *)
(* the reply by taking the span from the first '{' to the last '}'.        *)
(*                                                                         *)
(* A text is a sequence of one-character strings.  A JSON value is         *)
(* represented by its text with the insignificant whitespace removed.      *)
(***************************************************************************)
EXTENDS Integers, Sequences, FiniteSets, TLC

(***************************************************************************)
(* Bounds of the model.                                                    *)
(***************************************************************************)
\* longest enumerated model reply in the extractor specification
MaxLen == 4
\* longest enumerated model reply in the service specification
MaxReplyLen == 3

(***************************************************************************)
(* Texts.                                                                  *)
(***************************************************************************)
Quote == "\""

\* the characters the enumerated replies are built from
EnumChars == { "{", "}", "[", "]", Quote, "1", "x", " " }

RECURSIVE TextsUpTo(_)
TextsUpTo(n) ==
  IF n = 0 THEN { << >> }
  ELSE LET shorter == TextsUpTo(n - 1)
       IN  shorter \cup { Append(t, c) : t \in { u \in shorter : Len(u) = n - 1 },
                                         c \in EnumChars }

\* Here you go: {"title":"X","sections":[]} hope that helps
ExampleEmbedded ==
  << "H", "e", "r", "e", " ", "y", "o", "u", " ", "g", "o", ":", " ", "{",
     "\"", "t", "i", "t", "l", "e", "\"", ":", "\"", "X", "\"", ",", "\"",
     "s", "e", "c", "t", "i", "o", "n", "s", "\"", ":", "[", "]", "}", " ",
     "h", "o", "p", "e", " ", "t", "h", "a", "t", " ", "h", "e", "l", "p",
     "s" >>

\* Sorry, I can't help with that.
ExampleNoBraces ==
  << "S", "o", "r", "r", "y", ",", " ", "I", " ", "c", "a", "n", "'", "t",
     " ", "h", "e", "l", "p", " ", "w", "i", "t", "h", " ", "t", "h", "a",
     "t", "." >>

\* {"a":1} and also {"b":2}
ExampleTwoObjects ==
  << "{", "\"", "a", "\"", ":", "1", "}", " ", "a", "n", "d", " ", "a", "l",
     "s", "o", " ", "{", "\"", "b", "\"", ":", "2", "}" >>

\* {"a":{"b":[1,true]}}
ExampleNested ==
  << "{", "\"", "a", "\"", ":", "{", "\"", "b", "\"", ":", "[", "1", ",",
     "t", "r", "u", "e", "]", "}", "}" >>

\* {"title":"X","sections":[]}
ExampleFlow ==
  << "{", "\"", "t", "i", "t", "l", "e", "\"", ":", "\"", "X", "\"", ",",
     "\"", "s", "e", "c", "t", "i", "o", "n", "s", "\"", ":", "[", "]", "}" >>

\* {"decisions":{"a":"b"},"summary":"s"}
ExampleDecisions ==
  << "{", "\"", "d", "e", "c", "i", "s", "i", "o", "n", "s", "\"", ":", "{",
     "\"", "a", "\"", ":", "\"", "b", "\"", "}", ",", "\"", "s", "u", "m",
     "m", "a", "r", "y", "\"", ":", "\"", "s", "\"", "}" >>

\* {"next_question":"q","extracted_info":{},"is_complete":true,"confidence_score":1}
ExampleProcessed ==
  << "{", "\"", "n", "e", "x", "t", "_", "q", "u", "e", "s", "t", "i", "o",
     "n", "\"", ":", "\"", "q", "\"", ",", "\"", "e", "x", "t", "r", "a",
     "c", "t", "e", "d", "_", "i", "n", "f", "o", "\"", ":", "{", "}", ",",
     "\"", "i", "s", "_", "c", "o", "m", "p", "l", "e", "t", "e", "\"", ":",
     "t", "r", "u", "e", ",", "\"", "c", "o", "n", "f", "i", "d", "e", "n",
     "c", "e", "_", "s", "c", "o", "r", "e", "\"", ":", "1", "}" >>

SampleTexts ==
  { ExampleEmbedded, ExampleNoBraces, ExampleTwoObjects, ExampleNested,
    ExampleFlow, ExampleDecisions, ExampleProcessed }

(***************************************************************************)
(* str.find, str.rfind and slicing, with Python's 0-based positions.       *)
(***************************************************************************)
\* s.find(c): the 0-based position of the first c, -1 when there is none
Find(s, c) ==
  LET hits == { i \in 1..Len(s) : s[i] = c }
  IN  IF hits = {} THEN -1
      ELSE (CHOOSE i \in hits : \A j \in hits : i <= j) - 1

\* s.rfind(c): the 0-based position of the last c, -1 when there is none
RFind(s, c) ==
  LET hits == { i \in 1..Len(s) : s[i] = c }
  IN  IF hits = {} THEN -1
      ELSE (CHOOSE i \in hits : \A j \in hits : i >= j) - 1

\* s[a:b] for 0 <= a and 0 <= b
Slice(s, a, b) ==
  LET hi == IF b < Len(s) THEN b ELSE Len(s)
  IN  IF a >= hi THEN << >> ELSE SubSeq(s, a + 1, hi)

(***************************************************************************)
(* json.loads on a text.  The scanner works on 1-based positions; a        *)
(* position of 0 means "does not parse".  The grammar is that of           *)
(* json.loads restricted to texts without '\', '-', '.', and without a     *)
(* digit followed by 'e' or 'E': objects, arrays, strings, unsigned        *)
(* integers, true, false, null, with blanks allowed between tokens.        *)
(***************************************************************************)
Digits == { "0", "1", "2", "3", "4", "5", "6", "7", "8", "9" }

RECURSIVE SkipWs(_, _)
SkipWs(s, i) ==
  IF i <= Len(s) /\ s[i] = " " THEN SkipWs(s, i + 1) ELSE i

\* s[i] is the opening quote: the position after the closing quote
ScanString(s, i) ==
  LET closes == { j \in (i + 1)..Len(s) : s[j] = Quote }
  IN  IF closes = {} THEN 0
      ELSE (CHOOSE j \in closes : \A k \in closes : j <= k) + 1

RECURSIVE SkipDigits(_, _)
SkipDigits(s, i) ==
  IF i <= Len(s) /\ s[i] \in Digits THEN SkipDigits(s, i + 1) ELSE i

\* s[i] is a digit: (0|[1-9][0-9]*)
ScanNumber(s, i) ==
  IF s[i] = "0" THEN i + 1 ELSE SkipDigits(s, i + 1)

\* the position after the word w when s continues with w at i, else 0
ScanWord(s, i, w) ==
  IF /\ i + Len(w) - 1 <= Len(s)
     /\ \A k \in 1..Len(w) : s[i + k - 1] = w[k]
  THEN i + Len(w)
  ELSE 0

RECURSIVE ScanValue(_, _), ScanMembers(_, _), ScanElements(_, _)

\* a value starting exactly at i
ScanValue(s, i) ==
  IF i > Len(s) THEN 0
  ELSE IF s[i] = Quote THEN ScanString(s, i)
  ELSE IF s[i] \in Digits THEN ScanNumber(s, i)
  ELSE IF s[i] = "t" THEN ScanWord(s, i, << "t", "r", "u", "e" >>)
  ELSE IF s[i] = "f" THEN ScanWord(s, i, << "f", "a", "l", "s", "e" >>)
  ELSE IF s[i] = "n" THEN ScanWord(s, i, << "n", "u", "l", "l" >>)
  ELSE IF s[i] = "{" THEN
         LET j == SkipWs(s, i + 1)
         IN  IF j <= Len(s) /\ s[j] = "}" THEN j + 1 ELSE ScanMembers(s, j)
  ELSE IF s[i] = "[" THEN
         LET j == SkipWs(s, i + 1)
         IN  IF j <= Len(s) /\ s[j] = "]" THEN j + 1 ELSE ScanElements(s, j)
  ELSE 0

\* "key" : value, then ',' and more members, or '}'
ScanMembers(s, i) ==
  IF i > Len(s) \/ s[i] # Quote THEN 0
  ELSE LET k == ScanString(s, i)
           c == SkipWs(s, k)
       IN  IF k = 0 \/ c > Len(s) \/ s[c] # ":" THEN 0
           ELSE LET v == ScanValue(s, SkipWs(s, c + 1))
                    e == SkipWs(s, v)
                IN  IF v = 0 \/ e > Len(s) THEN 0
                    ELSE IF s[e] = "}" THEN e + 1
                    ELSE IF s[e] = "," THEN ScanMembers(s, SkipWs(s, e + 1))
                    ELSE 0

\* value, then ',' and more elements, or ']'
ScanElements(s, i) ==
  LET v == ScanValue(s, i)
      e == SkipWs(s, v)
  IN  IF v = 0 \/ e > Len(s) THEN 0
      ELSE IF s[e] = "]" THEN e + 1
      ELSE IF s[e] = "," THEN ScanElements(s, SkipWs(s, e + 1))
      ELSE 0

\* json.loads(s) returns (rather than raising JSONDecodeError)
Parses(s) ==
  LET e == ScanValue(s, SkipWs(s, 1))
  IN  e # 0 /\ SkipWs(s, e) = Len(s) + 1

\* json.loads(s) returns a dict
ParsesToObject(s) ==
  Parses(s) /\ s[SkipWs(s, 1)] = "{"

\* position i of s lies inside a string literal (or is its closing quote)
InString(s, i) ==
  Cardinality({ j \in 1..(i - 1) : s[j] = Quote }) % 2 = 1

\* s[lo..hi] without the blanks that lie outside string literals
RECURSIVE SqueezeRange(_, _, _)
SqueezeRange(s, lo, hi) ==
  IF lo > hi THEN << >>
  ELSE IF lo = hi
  THEN IF s[lo] = " " /\ ~InString(s, lo) THEN << >> ELSE << s[lo] >>
  ELSE LET mid == (lo + hi) \div 2
       IN  SqueezeRange(s, lo, mid) \o SqueezeRange(s, mid + 1, hi)

Squeeze(s) == SqueezeRange(s, 1, Len(s))

\* the value json.loads(s) returns, for a text that parses
Loads(s) == Squeeze(s)


(***************************************************************************)
(* Message texts of the services and of the libraries they call.           *)
(***************************************************************************)
\* Error: 
MsgErrorPrefix ==
  << "E", "r", "r", "o", "r", ":", " " >>

\* OpenAI API error: 
MsgSimpleStatus ==
  << "O", "p", "e", "n", "A", "I", " ", "A", "P", "I", " ", "e", "r", "r",
     "o", "r", ":", " " >>

\*  - 
MsgDash ==
  << " ", "-", " " >>

\* OpenAI not configured
MsgWorkingNotConfigured ==
  << "O", "p", "e", "n", "A", "I", " ", "n", "o", "t", " ", "c", "o", "n",
     "f", "i", "g", "u", "r", "e", "d" >>

\* OpenAI Error: 
MsgWorkingStatus ==
  << "O", "p", "e", "n", "A", "I", " ", "E", "r", "r", "o", "r", ":", " " >>

\* OpenAI API key not configured
MsgDemoNotConfigured ==
  << "O", "p", "e", "n", "A", "I", " ", "A", "P", "I", " ", "k", "e", "y",
     " ", "n", "o", "t", " ", "c", "o", "n", "f", "i", "g", "u", "r", "e",
     "d" >>

\* OpenAI API Error: 
MsgDemoStatus ==
  << "O", "p", "e", "n", "A", "I", " ", "A", "P", "I", " ", "E", "r", "r",
     "o", "r", ":", " " >>

\* Conversion failed: 
MsgConversionFailed ==
  << "C", "o", "n", "v", "e", "r", "s", "i", "o", "n", " ", "f", "a", "i",
     "l", "e", "d", ":", " " >>

\* Failed to create flow: 
MsgFailedCreateFlow ==
  << "F", "a", "i", "l", "e", "d", " ", "t", "o", " ", "c", "r", "e", "a",
     "t", "e", " ", "f", "l", "o", "w", ":", " " >>

\* Failed to process response: 
MsgFailedProcess ==
  << "F", "a", "i", "l", "e", "d", " ", "t", "o", " ", "p", "r", "o", "c",
     "e", "s", "s", " ", "r", "e", "s", "p", "o", "n", "s", "e", ":", " " >>

\* Failed to extract decisions: 
MsgFailedExtract ==
  << "F", "a", "i", "l", "e", "d", " ", "t", "o", " ", "e", "x", "t", "r",
     "a", "c", "t", " ", "d", "e", "c", "i", "s", "i", "o", "n", "s", ":",
     " " >>

\* Error code: 
MsgErrorCode ==
  << "E", "r", "r", "o", "r", " ", "c", "o", "d", "e", ":", " " >>

\* Read timed out. (read timeout=60)
MsgReadTimeout ==
  << "R", "e", "a", "d", " ", "t", "i", "m", "e", "d", " ", "o", "u", "t",
     ".", " ", "(", "r", "e", "a", "d", " ", "t", "i", "m", "e", "o", "u",
     "t", "=", "6", "0", ")" >>

\* Max retries exceeded with url: /v1/chat/completions
MsgConnection ==
  << "M", "a", "x", " ", "r", "e", "t", "r", "i", "e", "s", " ", "e", "x",
     "c", "e", "e", "d", "e", "d", " ", "w", "i", "t", "h", " ", "u", "r",
     "l", ":", " ", "/", "v", "1", "/", "c", "h", "a", "t", "/", "c", "o",
     "m", "p", "l", "e", "t", "i", "o", "n", "s" >>

\* Request timed out.
MsgSdkTimeout ==
  << "R", "e", "q", "u", "e", "s", "t", " ", "t", "i", "m", "e", "d", " ",
     "o", "u", "t", "." >>

\* Connection error.
MsgSdkConnection ==
  << "C", "o", "n", "n", "e", "c", "t", "i", "o", "n", " ", "e", "r", "r",
     "o", "r", "." >>

\* Expecting value
MsgDecodeError ==
  << "E", "x", "p", "e", "c", "t", "i", "n", "g", " ", "v", "a", "l", "u",
     "e" >>

\* validation error
MsgValidation ==
  << "v", "a", "l", "i", "d", "a", "t", "i", "o", "n", " ", "e", "r", "r",
     "o", "r" >>

\* str(KeyError('question')), str(KeyError('response'))
MsgKeyErrorQuestion == << "'", "q", "u", "e", "s", "t", "i", "o", "n", "'" >>

MsgKeyErrorResponse == << "'", "r", "e", "s", "p", "o", "n", "s", "e", "'" >>

\* "title"
KeyTitle ==
  << "\"", "t", "i", "t", "l", "e", "\"" >>

\* "sections"
KeySections ==
  << "\"", "s", "e", "c", "t", "i", "o", "n", "s", "\"" >>

\* "next_question"
KeyNextQuestion ==
  << "\"", "n", "e", "x", "t", "_", "q", "u", "e", "s", "t", "i", "o", "n",
     "\"" >>

\* "extracted_info"
KeyExtractedInfo ==
  << "\"", "e", "x", "t", "r", "a", "c", "t", "e", "d", "_", "i", "n", "f",
     "o", "\"" >>

\* "is_complete"
KeyIsComplete ==
  << "\"", "i", "s", "_", "c", "o", "m", "p", "l", "e", "t", "e", "\"" >>

\* "confidence_score"
KeyConfidence ==
  << "\"", "c", "o", "n", "f", "i", "d", "e", "n", "c", "e", "_", "s", "c",
     "o", "r", "e", "\"" >>

\* "decisions"
KeyDecisions ==
  << "\"", "d", "e", "c", "i", "s", "i", "o", "n", "s", "\"" >>

\* "summary"
KeySummary ==
  << "\"", "s", "u", "m", "m", "a", "r", "y", "\"" >>

(***************************************************************************)
(* Members and elements of a text that parses, for the response models of  *)
(* main.py.                                                                *)
(***************************************************************************)
\* s[i] opens a key of an object that parses: its members, in order
RECURSIVE MemberSpans(_, _)
MemberSpans(s, i) ==
  LET k  == ScanString(s, i)
      v1 == SkipWs(s, SkipWs(s, k) + 1)
      v2 == ScanValue(s, v1)
      e  == SkipWs(s, v2)
  IN  << [key |-> SubSeq(s, i, k - 1), value |-> SubSeq(s, v1, v2 - 1)] >>
      \o (IF s[e] = "," THEN MemberSpans(s, SkipWs(s, e + 1)) ELSE << >>)

\* the members of a text that parses to an object
Members(s) ==
  LET j == SkipWs(s, SkipWs(s, 1) + 1)
  IN  IF s[j] = "}" THEN << >> ELSE MemberSpans(s, j)

\* s[i] opens an element of an array that parses: its elements, in order
RECURSIVE ElementSpans(_, _)
ElementSpans(s, i) ==
  LET v2 == ScanValue(s, i)
      e  == SkipWs(s, v2)
  IN  << SubSeq(s, i, v2 - 1) >>
      \o (IF s[e] = "," THEN ElementSpans(s, SkipWs(s, e + 1)) ELSE << >>)

\* the elements of a text that parses to an array
Elements(s) ==
  LET j == SkipWs(s, SkipWs(s, 1) + 1)
  IN  IF s[j] = "]" THEN << >> ELSE ElementSpans(s, j)

HasKey(s, key) == \E n \in 1..Len(Members(s)) : Members(s)[n].key = key

\* dict lookup: of members with the same key the last one counts
Get(s, key) ==
  LET ms == Members(s)
      n  == CHOOSE n \in 1..Len(ms) :
              /\ ms[n].key = key
              /\ \A m \in (n + 1)..Len(ms) : ms[m].key # key
  IN  ms[n].value

IsStr(v)   == v[1] = Quote
IsBool(v)  == v[1] \in { "t", "f" }
IsNum(v)   == v[1] \in Digits
IsDict(v)  == v[1] = "{"
IsList(v)  == v[1] = "["
\* Dict[str, str]
IsStrDict(v)  == IsDict(v) /\ \A n \in 1..Len(Members(v)) : IsStr(Members(v)[n].value)
\* List[Dict[str, Any]]
IsDictList(v) == IsList(v) /\ \A n \in 1..Len(Elements(v)) : IsDict(Elements(v)[n])

\* the fields of a response model of main.py, each with its type test
\* (a field is accepted when its JSON type is the declared one)
ModelFields(ep) ==
  CASE ep = "main.create_flow" ->
         << << KeyTitle, "str" >>, << KeySections, "dictlist" >> >>
    [] ep = "main.process_response" ->
         << << KeyNextQuestion, "str" >>, << KeyExtractedInfo, "strdict" >>,
            << KeyIsComplete, "bool" >>, << KeyConfidence, "num" >> >>
    [] ep = "main.extract_decisions" ->
         << << KeyDecisions, "strdict" >>, << KeySummary, "str" >> >>

HasType(v, ty) ==
  CASE ty = "str"      -> IsStr(v)
    [] ty = "bool"     -> IsBool(v)
    [] ty = "num"      -> IsNum(v)
    [] ty = "strdict"  -> IsStrDict(v)
    [] ty = "dictlist" -> IsDictList(v)

\* Model(**data) succeeds: data is a dict holding every field with its type
Validates(ep, s) ==
  /\ ParsesToObject(s)
  /\ \A n \in 1..Len(ModelFields(ep)) :
       /\ HasKey(s, ModelFields(ep)[n][1])
       /\ HasType(Get(s, ModelFields(ep)[n][1]), ModelFields(ep)[n][2])

\* the model serialised: its declared fields, in order, and nothing else
RECURSIVE DumpFields(_, _, _)
DumpFields(ep, s, n) ==
  LET f == ModelFields(ep)[n]
  IN  f[1] \o << ":" >> \o Loads(Get(s, f[1]))
      \o (IF n < Len(ModelFields(ep))
          THEN << "," >> \o DumpFields(ep, s, n + 1) ELSE << >>)

Dump(ep, s) == << "{" >> \o DumpFields(ep, s, 1) \o << "}" >>

(***************************************************************************)
(* Services, endpoints, requests.                                          *)
(***************************************************************************)
TolerantEndpoints ==
  { "simple.create_flow", "simple.extract_decisions", "working.create_flow",
    "demo.convert_document", "demo.create_flow" }

MainEndpoints ==
  { "main.create_flow", "main.process_response", "main.extract_decisions" }

Endpoints == TolerantEndpoints \cup MainEndpoints

\* GET /health of each service
HealthEndpoints == { "simple.health", "working.health", "demo.health", "main.health" }

ServiceOf(ep) ==
  CASE ep \in MainEndpoints \cup { "main.health" } -> "main"
    [] ep \in { "simple.create_flow", "simple.extract_decisions", "simple.health" } -> "simple"
    [] ep \in { "working.create_flow", "working.health" } -> "working"
    [] ep \in { "demo.convert_document", "demo.create_flow", "demo.health" } -> "demo"

TemplateTypes == { "Permit", "Unknown" }

\* the template_type values a handler can see; "" where it reads none
TypesOf(ep) ==
  IF ep \in { "simple.create_flow", "simple.extract_decisions",
              "demo.create_flow", "main.create_flow", "main.extract_decisions" }
  THEN TemplateTypes ELSE { "" }

\* the handlers that read a document from the request
FlowEndpoints ==
  { "simple.create_flow", "working.create_flow", "demo.convert_document",
    "demo.create_flow", "main.create_flow" }

\* whether the document is empty text (template_content.strip() is empty)
BlanksOf(ep) == IF ep \in FlowEndpoints THEN BOOLEAN ELSE { FALSE }

\* the process environment: OPENAI_API_KEY unset, set to "", set to a key
EnvStates == { "unset", "empty", "set" }

\* os.getenv("OPENAI_API_KEY", "your-openai-key-here")
ModuleKey(e) ==
  CASE e = "unset" -> "your-openai-key-here"
    [] e = "empty" -> ""
    [] e = "set"   -> "sk-live"

\* bool(OPENAI_API_KEY)
Truthy(key) == key # ""

\* OpenAI(api_key=os.getenv("OPENAI_API_KEY")) raises at import when the
\* variable is unset, so main.py serves only when it is set
Serves(svc, e) == svc = "main" => e # "unset"

(***************************************************************************)
(* The state of a service process: what the module holds, and the request  *)
(* a handler is working on.                                                *)
(***************************************************************************)
VARIABLES
  env,             \* the process environment's OPENAI_API_KEY
  OPENAI_API_KEY,  \* the module-level key, read once at import
  pc,              \* where the handler is
  request,         \* the request being handled
  prompt,          \* the prompt sent with the outbound call
  calls,           \* outbound calls issued for this request
  upstream,        \* the outcome of the outbound call
  resp,            \* the response sent
  seen,            \* an earlier request and the prompt built for it
  peer,            \* a second handler running in the same process
  issued,          \* the share_ids handed out so far
  stored           \* the shared conversations the process keeps

vars ==
  << env, OPENAI_API_KEY, pc, request, prompt, calls, upstream, resp, seen, peer,
     issued, stored >>

(***************************************************************************)
(* Requests' documents and conversation histories, and the prompts the     *)
(* handlers build from them.  A prompt is the sequence of the pieces its   *)
(* f-string concatenates: literal text, and the request's values.          *)
(***************************************************************************)
MaxHistory == 6

\* one entry of conversation_history: the keys it has, and which exchange
\* of the conversation it is
Exchange(i) == [keys |-> { "question", "response" }, n |-> i]

History(n) == [i \in 1..n |-> Exchange(i)]

\* a history whose first entry lacks 'question'
HistoryLackingQuestion(n) ==
  [i \in 1..n |-> IF i = 1 THEN [keys |-> { "response" }, n |-> i] ELSE Exchange(i)]

\* a history whose last entry lacks 'response'
HistoryLackingResponse(n) ==
  [i \in 1..n |-> IF i = n THEN [keys |-> { "question" }, n |-> i] ELSE Exchange(i)]

Histories ==
  { History(n) : n \in 0..MaxHistory }
  \cup { HistoryLackingQuestion(n) : n \in 1..MaxHistory }
  \cup { HistoryLackingResponse(n) : n \in 1..MaxHistory }

\* the conversation_history values a handler can see; << >> where it reads none
HistoriesOf(ep) ==
  IF ep \in { "simple.extract_decisions", "main.process_response",
              "main.extract_decisions" }
  THEN Histories ELSE { << >> }

Lit(s) == [lit |-> s, n |-> 0]

\* {h['question']} and {h['response']} of exchange h
QuestionOf(h) == [lit |-> "{question}", n |-> h.n]

ResponseOf(h) == [lit |-> "{response}", n |-> h.n]

\* {template_content}: empty text, or the document
Document(rq) == IF rq.blank THEN Lit("") ELSE [lit |-> "{template_content}", n |-> 1]

\* conversation_history[:n], the oldest entries instead of the latest
FirstN(h, n) == IF Len(h) <= n THEN h ELSE SubSeq(h, 1, n)

\* conversation_history[-n:]
LastN(h, n) == IF Len(h) <= n THEN h ELSE SubSeq(h, Len(h) - n + 1, Len(h))

\* f"Q: {h['question']}\nA: {h['response']}"
RenderStrict(h) == << Lit("Q: "), QuestionOf(h), Lit("\nA: "), ResponseOf(h) >>

\* f"Q: {h.get('question', '')}\nA: {h.get('response', '')}"
RenderLenient(h) ==
  << Lit("Q: "), IF "question" \in h.keys THEN QuestionOf(h) ELSE Lit(""),
     Lit("\nA: "), IF "response" \in h.keys THEN ResponseOf(h) ELSE Lit("") >>

\* sep.join(parts)
RECURSIVE Join(_, _)
Join(sep, parts) ==
  IF parts = << >> THEN << >>
  ELSE IF Len(parts) = 1 THEN parts[1]
  ELSE parts[1] \o << Lit(sep) >> \o Join(sep, Tail(parts))

\* [-5:], "Last 5 exchanges"
HistoryWindow == 5

\* the entries a handler renders into its prompt
Embedded(ep, history) ==
  IF ep = "main.process_response" THEN LastN(history, HistoryWindow) ELSE history

\* the entries whose h['question'] or h['response'] raises KeyError
Unreadable(ep, history) ==
  IF ServiceOf(ep) # "main" THEN { }
  ELSE { i \in DOMAIN Embedded(ep, history) :
           Embedded(ep, history)[i].keys # { "question", "response" } }

\* str(KeyError(k)) of the first key missing from the first such entry
KeyErrorText(ep, history) ==
  LET hs == Embedded(ep, history)
      i  == CHOOSE k \in Unreadable(ep, history) :
              \A j \in Unreadable(ep, history) : k <= j
  IN  IF "question" \notin hs[i].keys THEN MsgKeyErrorQuestion
      ELSE MsgKeyErrorResponse

\* conversation_text / history_text
HistoryText(ep, history) ==
  LET hs == Embedded(ep, history)
  IN  CASE ep = "main.process_response" ->
             Join("\n", [i \in DOMAIN hs |-> RenderStrict(hs[i])])
        [] ep = "main.extract_decisions" ->
             Join("\n\n", [i \in DOMAIN hs |-> RenderStrict(hs[i])])
        [] ep = "simple.extract_decisions" ->
             Join("\n", [i \in DOMAIN hs |-> RenderLenient(hs[i])])
        [] OTHER -> << >>

PromptBuilt(p) == [raised |-> FALSE, text |-> p, error |-> << >>]

PromptRaised(msg) == [raised |-> TRUE, text |-> << >>, error |-> msg]

\* prompt = f"""...""": the pieces of each handler's prompt
PromptText(rq) ==
  CASE rq.ep = "simple.create_flow" ->
         << Lit("Convert this "), Lit(rq.ttype),
            Lit(" template into conversational questions:\n\n"), Document(rq),
            Lit("\n\nReturn JSON with this exact format:\n{\n    \"title\": \""),
            Lit(rq.ttype), Lit(" Application\",\n    \"sections\": [...]\n}") >>
    [] rq.ep = "simple.extract_decisions" ->
         << Lit("Extract key decisions from this "), Lit(rq.ttype),
            Lit(" conversation:\n\n") >>
         \o HistoryText(rq.ep, rq.history)
         \o << Lit("\n\nReturn JSON with extracted information:\n{...}") >>
    [] rq.ep = "working.create_flow" ->
         << Lit("Convert this Adopt-A-Highway requirements document to natural conversation questions:\n\n"),
            Document(rq),
            Lit("\n\nMake it conversational like ChatGPT. Return JSON:\n{...}") >>
    [] rq.ep = "demo.convert_document" ->
         << Lit("Convert this Adopt-A-Highway requirements document into a natural conversation flow.\n\nDOCUMENT CONTENT:\n"),
            Document(rq),
            Lit("\n\nCreate conversational questions that feel like ChatGPT. ... Return JSON with this structure:\n{...}") >>
    [] rq.ep = "demo.create_flow" ->
         << Lit("Convert this "), Lit(rq.ttype),
            Lit(" requirements document into a conversational flow.\n\nREQUIREMENTS DOCUMENT:\n"),
            Document(rq),
            Lit("\n\nInstructions:\n1. ... 6. ...\n\nReturn JSON with this exact structure:\n{...}") >>
    [] rq.ep = "main.create_flow" ->
         << Lit("Convert this "), Lit(rq.ttype),
            Lit(" requirements template into a simple conversation flow with natural questions.\n\nTEMPLATE:\n"),
            Document(rq),
            Lit("\n\nCreate 3-5 sections with conversational questions. Return JSON format:\n{...}") >>
    [] rq.ep = "main.process_response" ->
         << Lit("Process this user response in a requirements gathering conversation.\n\nCONVERSATION HISTORY:\n") >>
         \o HistoryText(rq.ep, rq.history)
         \o << Lit("\n\nCURRENT QUESTION: "), Lit("{current_question}"),
               Lit("\nUSER RESPONSE: "), Lit("{user_response}"),
               Lit("\n\nExtract key information and suggest the next question. Return JSON:\n{...}") >>
    [] rq.ep = "main.extract_decisions" ->
         << Lit("Extract all key decisions from this "), Lit(rq.ttype),
            Lit(" conversation.\n\nCONVERSATION:\n") >>
         \o HistoryText(rq.ep, rq.history)
         \o << Lit("\n\nExtract decisions and create a summary. Return JSON:\n{...}") >>

\* a handler whose prompt also carries text kept from an earlier request
BuildPromptCarryingOver(rq) ==
  IF Unreadable(rq.ep, rq.history) # { }
  THEN PromptRaised(KeyErrorText(rq.ep, rq.history))
  ELSE PromptBuilt(PromptText(rq) \o seen.prompt)

\* the handler up to its outbound call: the prompt, or the exception that
\* rendering the history raised
BuildPrompt(rq) ==
  IF Unreadable(rq.ep, rq.history) # { }
  THEN PromptRaised(KeyErrorText(rq.ep, rq.history))
  ELSE PromptBuilt(PromptText(rq))

\* how many history entries a prompt embeds: one "Q: " each
EntriesIn(p) == Cardinality({ j \in DOMAIN p : p[j] = Lit("Q: ") })

(***************************************************************************)
(* Results: a parsed JSON value, or one of the hardcoded structures, named *)
(* by its title.                                                           *)
(***************************************************************************)
NoValue == [kind |-> "none", name |-> "", ttype |-> "", text |-> << >>]

JsonValue(t) == [kind |-> "json", name |-> "", ttype |-> "", text |-> t]

Hardcoded(name, tt) == [kind |-> "fallback", name |-> name, ttype |-> tt, text |-> << >>]

DemoFlow ==
  [kind |-> "demo", name |-> "Adopt-A-Highway Program Configuration",
   ttype |-> "", text |-> << >>]

FailureReasons == { "no_brace_pair", "parse_error" }

\* demo_ai naming another structure when the candidate fails to parse
FallbackForByCause(ep, tt, reason) ==
  CASE ep = "simple.create_flow" -> Hardcoded("{template_type} Application", tt)
    [] ep = "simple.extract_decisions" ->
         Hardcoded("Completed {template_type} requirements gathering", tt)
    [] ep = "working.create_flow" ->
         IF reason = "no_brace_pair" THEN Hardcoded("Converted Flow", "")
         ELSE Hardcoded("AI Processing", "")
    [] ep \in { "demo.convert_document", "demo.create_flow" } ->
         IF reason = "no_brace_pair"
         THEN Hardcoded("Adopt-A-Highway Program Setup", "")
         ELSE Hardcoded("AI Processing", "")

\* the structure a handler substitutes when extraction fails
FallbackFor(ep, tt, reason) ==
  CASE ep = "simple.create_flow" -> Hardcoded("{template_type} Application", tt)
    [] ep = "simple.extract_decisions" ->
         Hardcoded("Completed {template_type} requirements gathering", tt)
    [] ep = "working.create_flow" ->
         IF reason = "no_brace_pair" THEN Hardcoded("Converted Flow", "")
         ELSE Hardcoded("AI Processing", "")
    [] ep \in { "demo.convert_document", "demo.create_flow" } ->
         Hardcoded("Adopt-A-Highway Program Setup", "")

(***************************************************************************)
(* The hardcoded structures, as far as the data model looks into them: the *)
(* keys of each object, the identifiers, and the question types.           *)
(***************************************************************************)
\* {"id": id, "text": ..., "type": type}, with "options" when given
Question(id, type, options) ==
  [object |-> TRUE,
   keys |-> { "id", "text", "type" } \cup (IF options THEN { "options" } ELSE { }),
   id |-> id, type |-> type]

\* a question given as a bare string
BareQuestion == [object |-> FALSE, keys |-> { }, id |-> "", type |-> ""]

\* the hardcoded structure named by v
Structure(v) ==
  CASE v.name = "{template_type} Application" ->
         [keys |-> { "title", "sections" },
          sections |->
            << [keys |-> { "id", "title", "questions" }, id |-> "org_info",
                questions |-> << Question("q1", "text", FALSE),
                                 Question("q2", "select", FALSE),
                                 Question("q3", "email", FALSE) >>],
               [keys |-> { "id", "title", "questions" }, id |-> "project_details",
                questions |-> << Question("q4", "text", FALSE),
                                 Question("q5", "textarea", FALSE) >>] >>]
    [] v.name \in { "Converted Flow", "AI Processing" } ->
         [keys |-> { "title", "sections" },
          sections |->
            << [keys |-> { "title", "questions" }, id |-> "",
                questions |-> << BareQuestion >>] >>]
    [] v.name = "Adopt-A-Highway Program Setup" ->
         [keys |-> { "title", "description", "sections" },
          sections |->
            << [keys |-> { "id", "title", "questions" }, id |-> "program_basics",
                questions |-> << Question("county", "text", FALSE),
                                 Question("duration", "select", TRUE),
                                 Question("departments", "multiselect", TRUE) >>],
               [keys |-> { "id", "title", "questions" }, id |-> "volunteer_process",
                questions |-> << Question("registration", "select", TRUE),
                                 Question("segments", "select", TRUE) >>] >>]
    [] v.name = "Completed {template_type} requirements gathering" ->
         [keys |-> { "decisions", "summary" }, sections |-> << >>]

(***************************************************************************)
(* The extraction step of each handler.                                    *)
(***************************************************************************)
\* start = ai_response.find('{')
CandidateStart(s) == Find(s, "{")

\* end = ai_response.rfind('}'), the closing brace left out of the slice
CandidateEndExclusive(s) == RFind(s, "}")

\* end = ai_response.rfind('}') + 1
CandidateEnd(s) == RFind(s, "}") + 1

\* if start != -1 and end > start
HasCandidate(s) == CandidateStart(s) # -1 /\ CandidateEnd(s) > CandidateStart(s)

\* ai_response[start:end]
Candidate(s) == Slice(s, CandidateStart(s), CandidateEnd(s))

Returned(v) == [raised |-> FALSE, value |-> v, error |-> << >>]

Raised(msg) == [raised |-> TRUE, value |-> NoValue, error |-> msg]

\* the parse error is not caught by the handler's inner except
OnParseErrorPropagates(ep, tt) == Raised(MsgDecodeError)

\* json.loads raised inside the handler's try
OnParseError(ep, tt) ==
  IF ep \in MainEndpoints THEN Raised(MsgDecodeError)
  ELSE Returned(FallbackFor(ep, tt, "parse_error"))

\* json.loads(t), under the handler's try
TryLoads(ep, tt, t) ==
  IF Parses(t) THEN Returned(JsonValue(Loads(t))) ELSE OnParseError(ep, tt)

\* from ai_response to result
Extract(ep, tt, s) ==
  CASE ServiceOf(ep) = "simple" ->
         IF HasCandidate(s) THEN TryLoads(ep, tt, Candidate(s))
         ELSE TryLoads(ep, tt, s)
    [] ServiceOf(ep) \in { "working", "demo" } ->
         IF HasCandidate(s) THEN TryLoads(ep, tt, Candidate(s))
         ELSE Returned(FallbackFor(ep, tt, "no_brace_pair"))
    [] ServiceOf(ep) = "main" ->
         IF ~Parses(s) THEN OnParseError(ep, tt)
         ELSE IF ~Validates(ep, s) THEN Raised(MsgValidation)
         ELSE Returned(JsonValue(Dump(ep, s)))

(***************************************************************************)
(* The outbound call and what call_openai makes of its outcome.            *)
(***************************************************************************)
ErrorStatuses == { 429, 503 }

ErrorBodies == { << "x" >>, << "{", "}" >> }

NoOutcome == [kind |-> "none", code |-> 0, text |-> << >>]

Replied(t) == [kind |-> "ok", code |-> 200, text |-> t]

\* the replies of the provider: a completion, an error status with a body,
\* a network failure, a timeout
Outcomes(texts) ==
  { Replied(t) : t \in texts }
  \cup { [kind |-> "status", code |-> c, text |-> b] : c \in ErrorStatuses, b \in ErrorBodies }
  \cup { [kind |-> "neterr", code |-> 0, text |-> << >>],
         [kind |-> "timeout", code |-> 0, text |-> << >>] }

DigitChar(d) == << "0", "1", "2", "3", "4", "5", "6", "7", "8", "9" >>[d + 1]

\* str(n) for n >= 0
RECURSIVE DigitsOf(_)
DigitsOf(n) ==
  IF n < 10 THEN << DigitChar(n) >>
  ELSE DigitsOf(n \div 10) \o << DigitChar(n % 10) >>

\* str(e) of the exception the client library raises
ExceptionText(svc, o) ==
  IF svc = "main"
  THEN CASE o.kind = "timeout" -> MsgSdkTimeout
         [] o.kind = "neterr"  -> MsgSdkConnection
         [] o.kind = "status"  -> MsgErrorCode \o DigitsOf(o.code) \o MsgDash \o o.text
  ELSE CASE o.kind = "timeout" -> MsgReadTimeout
         [] o.kind = "neterr"  -> MsgConnection

\* the timeout argument of the outbound call: requests.post(..., timeout=60);
\* chat.completions.create(...) is passed none
CallTimeout(svc) ==
  IF svc = "main" THEN [given |-> FALSE, seconds |-> 0]
  ELSE [given |-> TRUE, seconds |-> 60]

CallReturned(t) == [raised |-> FALSE, text |-> t, error |-> << >>]

CallRaised(msg) == [raised |-> TRUE, text |-> << >>, error |-> msg]

\* working_ai and demo_ai putting the provider's error body into the text
\* they return, as simple_ai puts it into its exception
call_openai_with_body(svc, o) ==
  CASE svc = "simple" ->
         IF o.kind = "ok" THEN CallReturned(o.text)
         ELSE IF o.kind = "status"
         THEN CallRaised(MsgSimpleStatus \o DigitsOf(o.code) \o MsgDash \o o.text)
         ELSE CallRaised(ExceptionText(svc, o))
    [] svc = "working" ->
         IF o.kind = "ok" THEN CallReturned(o.text)
         ELSE IF o.kind = "status"
         THEN CallReturned(MsgWorkingStatus \o DigitsOf(o.code) \o MsgDash \o o.text)
         ELSE CallReturned(MsgErrorPrefix \o ExceptionText(svc, o))
    [] svc = "demo" ->
         IF o.kind = "ok" THEN CallReturned(o.text)
         ELSE IF o.kind = "status"
         THEN CallReturned(MsgDemoStatus \o DigitsOf(o.code) \o MsgDash \o o.text)
         ELSE CallReturned(MsgErrorPrefix \o ExceptionText(svc, o))
    [] svc = "main" ->
         IF o.kind = "ok" THEN CallReturned(o.text)
         ELSE CallRaised(ExceptionText(svc, o))

\* what the call hands to the handler: the text it returns, or the
\* exception it raises
call_openai(svc, o) ==
  CASE svc = "simple" ->
         IF o.kind = "ok" THEN CallReturned(o.text)
         ELSE IF o.kind = "status"
         THEN CallRaised(MsgSimpleStatus \o DigitsOf(o.code) \o MsgDash \o o.text)
         ELSE CallRaised(ExceptionText(svc, o))
    [] svc = "working" ->
         IF o.kind = "ok" THEN CallReturned(o.text)
         ELSE IF o.kind = "status"
         THEN CallReturned(MsgWorkingStatus \o DigitsOf(o.code))
         ELSE CallReturned(MsgErrorPrefix \o ExceptionText(svc, o))
    [] svc = "demo" ->
         IF o.kind = "ok" THEN CallReturned(o.text)
         ELSE IF o.kind = "status"
         THEN CallReturned(MsgDemoStatus \o DigitsOf(o.code))
         ELSE CallReturned(MsgErrorPrefix \o ExceptionText(svc, o))
    [] svc = "main" ->
         IF o.kind = "ok" THEN CallReturned(o.text)
         ELSE CallRaised(ExceptionText(svc, o))

\* the text call_openai returns without calling when the key is falsy
NotConfiguredText(svc) ==
  IF svc = "working" THEN MsgWorkingNotConfigured ELSE MsgDemoNotConfigured

\* every handler answering without a call when the document is empty
NeedsCallGivenDocument(rq, key) ==
  /\ ~rq.blank
  /\ ~BuildPrompt(rq).raised
  /\ ~(ServiceOf(rq.ep) \in { "working", "demo" } /\ ~Truthy(key))

\* whether the handler goes on to the provider
NeedsCall(rq, key) ==
  /\ ~(rq.ep = "demo.create_flow" /\ rq.blank)
  /\ ~BuildPrompt(rq).raised
  /\ ~(ServiceOf(rq.ep) \in { "working", "demo" } /\ ~Truthy(key))

\* a handler that calls again after a failed call
CallAgainOnFailure(svc, o) == o.kind # "ok"

\* after an outcome the call returns or raises; no handler calls again
CallAgain(svc, o) == FALSE

(***************************************************************************)
(* Responses.                                                              *)
(***************************************************************************)
NoResp ==
  [status |-> 0, fields |-> {}, success |-> "absent", result |-> NoValue,
   preview |-> << >>, ai_used |-> "absent", detail |-> << >>,
   openai_configured |-> "absent", share_id |-> << >>, shareable_url |-> << >>,
   message |-> << >>]

\* the body is the result itself
Bare(v) == [NoResp EXCEPT !.status = 200, !.fields = { "<body>" }, !.result = v]

\* raise HTTPException(status_code=500, detail=...)
Http500(detail) == [NoResp EXCEPT !.status = 500, !.fields = { "detail" }, !.detail = detail]

PyBool(b) == IF b THEN "true" ELSE "false"

\* the mark added already to a text of exactly limit characters
PreviewMarkingAtLimit(text, limit) ==
  IF Len(text) >= limit THEN SubSeq(text, 1, limit) \o << ".", ".", "." >> ELSE text

\* text[:limit] + "..." if len(text) > limit else text
Preview(text, limit) ==
  IF Len(text) > limit THEN SubSeq(text, 1, limit) \o << ".", ".", "." >> ELSE text

\* process-response rendering the history before its try: the KeyError is
\* not converted, and the caller gets the server's bare 500
OnExceptionOutsideTry(rq, msg) ==
  CASE ServiceOf(rq.ep) = "simple" -> Http500(MsgErrorPrefix \o msg)
    [] rq.ep = "working.create_flow" -> Http500(msg)
    [] rq.ep = "demo.convert_document" -> Http500(MsgConversionFailed \o msg)
    [] rq.ep = "demo.create_flow" ->
         [NoResp EXCEPT !.status = 200,
                        !.fields = { "success", "error", "fallback_flow" },
                        !.success = "false",
                        !.result = FallbackFor(rq.ep, rq.ttype, "parse_error"),
                        !.detail = msg]
    [] rq.ep = "main.create_flow" -> Http500(MsgFailedCreateFlow \o msg)
    [] rq.ep = "main.process_response" ->
         IF msg \in { MsgKeyErrorQuestion, MsgKeyErrorResponse }
         THEN [NoResp EXCEPT !.status = 500]
         ELSE Http500(MsgFailedProcess \o msg)
    [] rq.ep = "main.extract_decisions" -> Http500(MsgFailedExtract \o msg)

\* the handler's outer except clause
OnException(rq, msg) ==
  CASE ServiceOf(rq.ep) = "simple" -> Http500(MsgErrorPrefix \o msg)
    [] rq.ep = "working.create_flow" -> Http500(msg)
    [] rq.ep = "demo.convert_document" -> Http500(MsgConversionFailed \o msg)
    [] rq.ep = "demo.create_flow" ->
         [NoResp EXCEPT !.status = 200,
                        !.fields = { "success", "error", "fallback_flow" },
                        !.success = "false",
                        !.result = FallbackFor(rq.ep, rq.ttype, "parse_error"),
                        !.detail = msg]
    [] rq.ep = "main.create_flow" -> Http500(MsgFailedCreateFlow \o msg)
    [] rq.ep = "main.process_response" -> Http500(MsgFailedProcess \o msg)
    [] rq.ep = "main.extract_decisions" -> Http500(MsgFailedExtract \o msg)

\* ai_used telling whether the flow returned is the model's output
RespondWithOutputFlag(rq, key, s, x) ==
  IF x.raised THEN OnException(rq, x.error)
  ELSE CASE rq.ep = "working.create_flow" ->
              [NoResp EXCEPT !.status = 200,
                 !.fields = { "success", "converted_flow", "ai_response_preview" },
                 !.success = "true", !.result = x.value,
                 !.preview = Preview(s, 300)]
         [] rq.ep = "demo.convert_document" ->
              [NoResp EXCEPT !.status = 200,
                 !.fields = { "success", "conversation_flow", "ai_response_preview" },
                 !.success = "true", !.result = x.value,
                 !.preview = Preview(s, 200)]
         [] rq.ep = "demo.create_flow" ->
              [NoResp EXCEPT !.status = 200,
                 !.fields = { "success", "conversation_flow", "ai_used", "message" },
                 !.success = "true", !.result = x.value,
                 !.ai_used = PyBool(x.value.kind = "json")]
         [] OTHER -> Bare(x.value)

\* the response made of the extraction's outcome x
RespondWith(rq, key, s, x) ==
  IF x.raised THEN OnException(rq, x.error)
  ELSE CASE rq.ep = "working.create_flow" ->
              [NoResp EXCEPT !.status = 200,
                 !.fields = { "success", "converted_flow", "ai_response_preview" },
                 !.success = "true", !.result = x.value,
                 !.preview = Preview(s, 300)]
         [] rq.ep = "demo.convert_document" ->
              [NoResp EXCEPT !.status = 200,
                 !.fields = { "success", "conversation_flow", "ai_response_preview" },
                 !.success = "true", !.result = x.value,
                 !.preview = Preview(s, 200)]
         [] rq.ep = "demo.create_flow" ->
              [NoResp EXCEPT !.status = 200,
                 !.fields = { "success", "conversation_flow", "ai_used", "message" },
                 !.success = "true", !.result = x.value,
                 !.ai_used = PyBool(Truthy(key))]
         [] OTHER -> Bare(x.value)

\* the handler from ai_response to its response
AfterCall(rq, key, s) == RespondWith(rq, key, s, Extract(rq.ep, rq.ttype, s))

\* return await demo_conversation_flow()
DemoResponse ==
  [NoResp EXCEPT !.status = 200,
                 !.fields = { "success", "message", "conversation_flow" },
                 !.success = "true", !.result = DemoFlow]

\* return {"status": "healthy", "openai_configured": bool(OPENAI_API_KEY)}
HealthResponse(svc, key) ==
  CASE svc = "simple" ->
         [NoResp EXCEPT !.status = 200, !.fields = { "status", "openai_configured" },
                        !.openai_configured = PyBool(Truthy(key))]
    [] svc \in { "working", "demo" } ->
         [NoResp EXCEPT !.status = 200,
                        !.fields = { "status", "service", "openai_configured" },
                        !.openai_configured = PyBool(Truthy(key))]
    [] svc = "main" ->
         [NoResp EXCEPT !.status = 200, !.fields = { "status", "service" }]

\* the response of a handler that does not reach the provider
LocalResponse(rq, key) ==
  IF rq.ep = "demo.create_flow" /\ rq.blank THEN DemoResponse
  ELSE IF BuildPrompt(rq).raised THEN OnException(rq, BuildPrompt(rq).error)
  ELSE AfterCall(rq, key, NotConfiguredText(ServiceOf(rq.ep)))

\* the response of a handler whose call ended with outcome o
Finish(rq, key, o) ==
  LET c == call_openai(ServiceOf(rq.ep), o)
  IN  IF c.raised THEN OnException(rq, c.error)
      ELSE AfterCall(rq, key, c.text)

(***************************************************************************)
(* The services as a state machine: one request at a time.                 *)
(***************************************************************************)
NoReq == [ep |-> "none", ttype |-> "", blank |-> FALSE, history |-> << >>]

Requests(e) ==
  { [ep |-> ep, ttype |-> tt, blank |-> b, history |-> h] :
      ep \in { x \in Endpoints : Serves(ServiceOf(x), e) },
      tt \in TemplateTypes \cup { "" }, b \in BOOLEAN, h \in Histories }

\* no earlier request is kept
NoSeen == [request |-> NoReq, prompt |-> << >>]

\* a handler between requests
IdleHandler ==
  [pc |-> "idle", request |-> NoReq, prompt |-> << >>, calls |-> 0,
   upstream |-> NoOutcome, resp |-> NoResp]

WellFormed(rq) ==
  /\ rq.ttype \in TypesOf(rq.ep)
  /\ rq.blank \in BlanksOf(rq.ep)
  /\ rq.history \in HistoriesOf(rq.ep)

\* a reply of n characters without a brace
LongText(n) == [i \in 1..n |-> IF i % 7 = 0 THEN "1" ELSE "x"]

\* replies as long as the previews' limits, and one character longer
LongTexts == { LongText(n) : n \in { 200, 201, 300, 301 } }

ReplyTexts == TextsUpTo(MaxReplyLen) \cup SampleTexts \cup LongTexts

Init ==
  /\ env \in EnvStates
  /\ OPENAI_API_KEY = ModuleKey(env)
  /\ pc = "idle"
  /\ request = NoReq
  /\ calls = 0
  /\ upstream = NoOutcome
  /\ resp = NoResp
  /\ prompt = << >>
  /\ seen = NoSeen
  /\ peer = IdleHandler
  /\ issued = { }
  /\ stored = { }

\* a request reaches a handler
Receive ==
  /\ pc = "idle"
  /\ \E rq \in Requests(env) : WellFormed(rq) /\ request' = rq
  /\ pc' = "received"
  /\ calls' = 0
  /\ upstream' = NoOutcome
  /\ resp' = NoResp
  /\ prompt' = << >>
  /\ UNCHANGED << env, OPENAI_API_KEY, seen, peer, issued, stored >>

\* GET /health is answered
Health ==
  /\ pc = "idle"
  /\ \E ep \in { x \in HealthEndpoints : Serves(ServiceOf(x), env) } :
       /\ request' = [NoReq EXCEPT !.ep = ep]
       /\ resp' = HealthResponse(ServiceOf(ep), OPENAI_API_KEY)
  /\ pc' = "done"
  /\ UNCHANGED << env, OPENAI_API_KEY, seen, peer, prompt, calls, upstream, issued, stored >>

\* the handler answers without reaching the provider
RespondLocally ==
  /\ pc = "received"
  /\ ~NeedsCall(request, OPENAI_API_KEY)
  /\ resp' = LocalResponse(request, OPENAI_API_KEY)
  /\ pc' = "done"
  /\ UNCHANGED << env, OPENAI_API_KEY, seen, peer, request, prompt, calls, upstream, issued, stored >>

\* requests.post(...) / openai_client.chat.completions.create(...)
IssueCall ==
  /\ pc = "received"
  /\ NeedsCall(request, OPENAI_API_KEY)
  /\ prompt' = BuildPrompt(request).text
  /\ calls' = calls + 1
  /\ pc' = "calling"
  /\ UNCHANGED << env, OPENAI_API_KEY, seen, peer, request, upstream, resp, issued, stored >>

\* the provider answers, fails, or the call times out
UpstreamReplies ==
  /\ pc = "calling"
  /\ upstream' \in Outcomes(ReplyTexts)
  /\ pc' = "replied"
  /\ UNCHANGED << env, OPENAI_API_KEY, seen, peer, request, prompt, calls, resp, issued, stored >>

\* the rest of the handler
Complete ==
  /\ pc = "replied"
  /\ IF CallAgain(ServiceOf(request.ep), upstream)
     THEN /\ calls' = calls + 1
          /\ pc' = "calling"
          /\ UNCHANGED resp
     ELSE /\ resp' = Finish(request, OPENAI_API_KEY, upstream)
          /\ pc' = "done"
          /\ UNCHANGED calls
  /\ UNCHANGED << env, OPENAI_API_KEY, seen, peer, request, prompt, upstream, issued, stored >>

\* the response is sent; the service waits for the next request
Return ==
  /\ pc = "done"
  /\ pc' = "idle"
  /\ request' = NoReq
  /\ calls' = 0
  /\ upstream' = NoOutcome
  /\ resp' = NoResp
  /\ prompt' = << >>
  /\ UNCHANGED << env, OPENAI_API_KEY, seen, peer, issued, stored >>

Next ==
  \/ Receive
  \/ Health
  \/ RespondLocally
  \/ IssueCall
  \/ UpstreamReplies
  \/ Complete
  \/ Return

Spec == Init /\ [][Next]_vars

(***************************************************************************)
(* The extraction step alone, on every reply text up to MaxLen.            *)
(***************************************************************************)
ExtractTexts == TextsUpTo(MaxLen) \cup SampleTexts \cup LongTexts

InitExtract ==
  /\ env = "set"
  /\ OPENAI_API_KEY = ModuleKey(env)
  /\ pc = "replied"
  /\ request = NoReq
  /\ calls = 1
  /\ upstream \in { Replied(t) : t \in ExtractTexts }
  /\ resp = NoResp
  /\ prompt = << >>
  /\ seen = NoSeen
  /\ peer = IdleHandler
  /\ issued = { }
  /\ stored = { }

\* the handler of ep, from the reply on
ExtractAt(ep) ==
  /\ pc = "replied"
  /\ request = NoReq
  /\ \E tt \in TypesOf(ep) : request' = [ep |-> ep, ttype |-> tt, blank |-> FALSE, history |-> << >>]
  /\ resp' = Finish(request', OPENAI_API_KEY, upstream)
  /\ pc' = "done"
  /\ UNCHANGED << env, OPENAI_API_KEY, seen, peer, prompt, calls, upstream, issued, stored >>

SimpleCreateFlowExtract       == ExtractAt("simple.create_flow")
SimpleExtractDecisionsExtract == ExtractAt("simple.extract_decisions")
WorkingCreateFlowExtract      == ExtractAt("working.create_flow")
DemoConvertDocumentExtract    == ExtractAt("demo.convert_document")
DemoCreateFlowExtract         == ExtractAt("demo.create_flow")
MainParse                     == \E ep \in MainEndpoints : ExtractAt(ep)

NextExtract ==
  \/ SimpleCreateFlowExtract
  \/ SimpleExtractDecisionsExtract
  \/ WorkingCreateFlowExtract
  \/ DemoConvertDocumentExtract
  \/ DemoCreateFlowExtract
  \/ MainParse

SpecExtract == InitExtract /\ [][NextExtract]_vars

(***************************************************************************)
(* Prompt building alone: requests follow one another, each up to the      *)
(* prompt it sends, and the prompt of one earlier request is kept to be    *)
(* compared with those built later.                                        *)
(***************************************************************************)
\* the prompt has gone out; it is kept, or the one kept before stays
PromptSent ==
  /\ pc = "calling"
  /\ seen' \in { seen, [request |-> request, prompt |-> prompt] }
  /\ pc' = "idle"
  /\ request' = NoReq
  /\ prompt' = << >>
  /\ calls' = 0
  /\ UNCHANGED << env, OPENAI_API_KEY, upstream, resp, peer, issued, stored >>

NextPrompt ==
  \/ Receive
  \/ RespondLocally
  \/ IssueCall
  \/ PromptSent
  \/ Return

SpecPrompt == Init /\ [][NextPrompt]_vars

(***************************************************************************)
(* Two handlers of one service process at work at once.  The first is the  *)
(* handler of the variables above, the second is peer, taking the same     *)
(* steps; the steps interleave freely and both read the module-level key.  *)
(***************************************************************************)
\* a handler that clears the module-level key when its call has failed
ModuleKeyAfterClearing(h, key) ==
  IF h.pc = "replied" /\ h.upstream.kind # "ok" THEN "" ELSE key

\* OPENAI_API_KEY after a step of handler h: no handler assigns it
ModuleKeyAfter(h, key) == key

ConcurrentTexts == { ExampleEmbedded, ExampleNoBraces }

ConcurrentRequests(e) ==
  { rq \in { [ep |-> "simple.create_flow", ttype |-> "Permit", blank |-> FALSE,
              history |-> << >>],
             [ep |-> "simple.extract_decisions", ttype |-> "Permit", blank |-> FALSE,
              history |-> History(1)],
             [ep |-> "working.create_flow", ttype |-> "", blank |-> FALSE,
              history |-> << >>],
             [ep |-> "demo.create_flow", ttype |-> "Permit", blank |-> FALSE,
              history |-> << >>],
             [ep |-> "demo.create_flow", ttype |-> "Permit", blank |-> TRUE,
              history |-> << >>],
             [ep |-> "main.process_response", ttype |-> "", blank |-> FALSE,
              history |-> History(1)] } :
      Serves(ServiceOf(rq.ep), e) }

\* the first handler, as a record like peer
Handler ==
  [pc |-> pc, request |-> request, prompt |-> prompt, calls |-> calls,
   upstream |-> upstream, resp |-> resp]

\* the requests a handler can be given while handler g is at work: those
\* of the service whose process g runs in
Admissible(g, e) ==
  { rq \in ConcurrentRequests(e) :
      g.pc = "idle" \/ ServiceOf(rq.ep) = ServiceOf(g.request.ep) }

\* a request reaches the first handler
ReceiveBesidePeer ==
  /\ pc = "idle"
  /\ \E rq \in Admissible(peer, env) : request' = rq
  /\ pc' = "received"
  /\ calls' = 0
  /\ upstream' = NoOutcome
  /\ resp' = NoResp
  /\ prompt' = << >>
  /\ UNCHANGED << env, OPENAI_API_KEY, seen, peer, issued, stored >>

\* the provider answers the first handler's call
UpstreamRepliesBesidePeer ==
  /\ pc = "calling"
  /\ upstream' \in Outcomes(ConcurrentTexts)
  /\ pc' = "replied"
  /\ UNCHANGED << env, OPENAI_API_KEY, seen, peer, request, prompt, calls, resp, issued, stored >>

\* a request reaches the second handler
PeerReceive ==
  /\ peer.pc = "idle"
  /\ \E rq \in Admissible(Handler, env) :
       peer' = [IdleHandler EXCEPT !.pc = "received", !.request = rq]
  /\ OPENAI_API_KEY' = ModuleKeyAfter(peer, OPENAI_API_KEY)
  /\ UNCHANGED << env, pc, request, prompt, calls, upstream, resp, seen, issued, stored >>

PeerRespondLocally ==
  /\ peer.pc = "received"
  /\ ~NeedsCall(peer.request, OPENAI_API_KEY)
  /\ peer' = [peer EXCEPT !.pc = "done",
                          !.resp = LocalResponse(peer.request, OPENAI_API_KEY)]
  /\ OPENAI_API_KEY' = ModuleKeyAfter(peer, OPENAI_API_KEY)
  /\ UNCHANGED << env, pc, request, prompt, calls, upstream, resp, seen, issued, stored >>

PeerIssueCall ==
  /\ peer.pc = "received"
  /\ NeedsCall(peer.request, OPENAI_API_KEY)
  /\ peer' = [peer EXCEPT !.pc = "calling", !.calls = peer.calls + 1,
                          !.prompt = BuildPrompt(peer.request).text]
  /\ OPENAI_API_KEY' = ModuleKeyAfter(peer, OPENAI_API_KEY)
  /\ UNCHANGED << env, pc, request, prompt, calls, upstream, resp, seen, issued, stored >>

PeerUpstreamReplies ==
  /\ peer.pc = "calling"
  /\ \E o \in Outcomes(ConcurrentTexts) :
       peer' = [peer EXCEPT !.pc = "replied", !.upstream = o]
  /\ OPENAI_API_KEY' = ModuleKeyAfter(peer, OPENAI_API_KEY)
  /\ UNCHANGED << env, pc, request, prompt, calls, upstream, resp, seen, issued, stored >>

PeerComplete ==
  /\ peer.pc = "replied"
  /\ peer' = [peer EXCEPT !.pc = "done",
                          !.resp = Finish(peer.request, OPENAI_API_KEY, peer.upstream)]
  /\ OPENAI_API_KEY' = ModuleKeyAfter(peer, OPENAI_API_KEY)
  /\ UNCHANGED << env, pc, request, prompt, calls, upstream, resp, seen, issued, stored >>

PeerReturn ==
  /\ peer.pc = "done"
  /\ peer' = IdleHandler
  /\ OPENAI_API_KEY' = ModuleKeyAfter(peer, OPENAI_API_KEY)
  /\ UNCHANGED << env, pc, request, prompt, calls, upstream, resp, seen, issued, stored >>

NextConcurrent ==
  \/ ReceiveBesidePeer
  \/ RespondLocally
  \/ IssueCall
  \/ UpstreamRepliesBesidePeer
  \/ Complete
  \/ Return
  \/ PeerReceive
  \/ PeerRespondLocally
  \/ PeerIssueCall
  \/ PeerUpstreamReplies
  \/ PeerComplete
  \/ PeerReturn

SpecConcurrent == Init /\ [][NextConcurrent]_vars

(***************************************************************************)
(* simple_ai's shareable links: a link is made from the request alone and  *)
(* the shared view is made from the path alone.                            *)
(***************************************************************************)
\* "share_"
MsgSharePrefix == << "s", "h", "a", "r", "e", "_" >>

\* "http://localhost:8000/shared/"
MsgShareUrl ==
  << "h", "t", "t", "p", ":", "/", "/", "l", "o", "c", "a", "l", "h", "o", "s", "t", ":", "8", "0", "0", "0", "/", "s", "h", "a", "r", "e", "d", "/" >>

\* "Shared conversation "
MsgSharedConversation ==
  << "S", "h", "a", "r", "e", "d", " ", "c", "o", "n", "v", "e", "r", "s", "a", "t", "i", "o", "n", " " >>

\* values hash(str(conversation_history)) takes: the hash of a string is
\* salted per process and may be negative
Hashes == { -100001, -1, 0, 7, 4321, 99999, 100000, 1234567 }

\* format(n, "05d") for n >= 0: at least width digits, zero filled
RECURSIVE PaddedDecimal(_, _)
PaddedDecimal(n, width) ==
  IF width <= 1 THEN DigitsOf(n)
  ELSE IF n < 10 THEN [i \in 1..(width - 1) |-> "0"] \o << DigitChar(n) >>
  ELSE PaddedDecimal(n \div 10, width - 1) \o << DigitChar(n % 10) >>

\* f"share_{hash(str(conversation_history)) % 100000:05d}"
ShareId(h) == MsgSharePrefix \o PaddedDecimal(h % 100000, 5)

\* the path parameters of GET /shared/{share_id}
ViewIds == { ShareId(h) : h \in Hashes } \cup { << "x" >>, MsgSharePrefix }

\* a handler that kept the conversation it formatted
StoredAfterShareKeeping(kept, id) == kept \cup { id }

\* formatted_conversation is a local of the handler: nothing outlives it
StoredAfterShare(kept, id) == kept

\* create_shareable_conversation's body
ShareResponse(id) ==
  [NoResp EXCEPT !.status = 200,
                 !.fields = { "share_id", "shareable_url", "title", "conversation_preview" },
                 !.share_id = id,
                 !.shareable_url = MsgShareUrl \o id]

\* view_shared_conversation's body
SharedView(id, kept) ==
  [NoResp EXCEPT !.status = 200,
                 !.fields = { "message", "note", "demo" },
                 !.message = MsgSharedConversation \o id]

\* POST /ai/create-shareable-link
CreateShareableLink ==
  /\ pc = "idle"
  /\ \E history \in Histories, h \in Hashes :
       /\ request' = [NoReq EXCEPT !.ep = "simple.create_shareable_link",
                                   !.history = history]
       /\ resp' = ShareResponse(ShareId(h))
       /\ issued' = issued \cup { ShareId(h) }
       /\ stored' = StoredAfterShare(stored, ShareId(h))
  /\ pc' = "done"
  /\ UNCHANGED << env, OPENAI_API_KEY, seen, peer, prompt, calls, upstream >>

\* GET /shared/{share_id}
ViewShared ==
  /\ pc = "idle"
  /\ \E id \in ViewIds :
       /\ request' = [NoReq EXCEPT !.ep = "simple.view_shared"]
       /\ resp' = SharedView(id, stored)
  /\ pc' = "done"
  /\ UNCHANGED << env, OPENAI_API_KEY, seen, peer, prompt, calls, upstream, issued, stored >>

NextShare ==
  \/ CreateShareableLink
  \/ ViewShared
  \/ Return

SpecShare == Init /\ [][NextShare]_vars

(***************************************************************************)
(* The span the extractor is specified to take: from the first '{' to the  *)
(* last '}' of the reply, inclusive.                                       *)
(***************************************************************************)
Opens(s)  == { i \in 1..Len(s) : s[i] = "{" }
Closes(s) == { i \in 1..Len(s) : s[i] = "}" }

FirstOpen(s) == CHOOSE i \in Opens(s) : \A j \in Opens(s) : i <= j
LastClose(s) == CHOOSE i \in Closes(s) : \A j \in Closes(s) : i >= j

HasSpan(s) == Opens(s) # {} /\ Closes(s) # {} /\ FirstOpen(s) < LastClose(s)

Span(s) == SubSeq(s, FirstOpen(s), LastClose(s))

\* a tolerant handler has answered a reply of the provider
Extracted ==
  pc = "done" /\ request.ep \in TolerantEndpoints /\ upstream.kind = "ok"

IsFallback(v) == v.kind = "fallback"

(***************************************************************************)
(* C1: when the span from the first '{' to the last '}' of the reply is    *)
(* well-formed JSON, every tolerant handler returns the value of parsing   *)
(* that span, whatever surrounds it, and not a fallback.                   *)
(***************************************************************************)
C1_EmbeddedJsonIsReturned ==
  (Extracted /\ HasSpan(upstream.text) /\ Parses(Span(upstream.text)))
    => /\ resp.status = 200
       /\ resp.result = JsonValue(Loads(Span(upstream.text)))

\* prose before and after the object, and the object is what comes back
C1_Witness ==
  /\ Extracted
  /\ upstream.text = ExampleEmbedded
  /\ request.ep = "demo.convert_document"
  /\ resp.result = JsonValue(ExampleFlow)

(***************************************************************************)
(* C2: a reply with no '{' or with no '}' gets the fallback from every     *)
(* tolerant handler, also when the reply is valid JSON that is no object.  *)
(***************************************************************************)
C2_NoBraceTextYieldsFallback ==
  (Extracted /\ (Opens(upstream.text) = {} \/ Closes(upstream.text) = {}))
    => resp.status = 200 /\ IsFallback(resp.result)

(***************************************************************************)
(* C3: a reply whose first '{' comes after its last '}' gets the fallback  *)
(* from every tolerant handler.                                            *)
(***************************************************************************)
C3_BracesOutOfOrderYieldFallback ==
  (/\ Extracted
   /\ Opens(upstream.text) # {} /\ Closes(upstream.text) # {}
   /\ FirstOpen(upstream.text) > LastClose(upstream.text))
    => resp.status = 200 /\ IsFallback(resp.result)

(***************************************************************************)
(* C4: when the span from the first '{' to the last '}' does not parse,    *)
(* every tolerant handler answers 200 with its fallback: the parse error   *)
(* does not propagate, and no part of the span is returned.                *)
(***************************************************************************)
C4_UnparseableSpanYieldsFallback ==
  (Extracted /\ HasSpan(upstream.text) /\ ~Parses(Span(upstream.text)))
    => resp.status = 200 /\ IsFallback(resp.result)

\* two objects in a row are one candidate, which fails
C4_Witness ==
  /\ Extracted
  /\ upstream.text = ExampleTwoObjects
  /\ request.ep = "demo.convert_document"
  /\ IsFallback(resp.result)

FailureCause(s) == IF HasSpan(s) THEN "parse_error" ELSE "no_brace_pair"

SaysNotConfigured(r) ==
  \/ r.preview \in { MsgWorkingNotConfigured, MsgDemoNotConfigured }
  \/ r.ai_used = "false"

C6_NoKeyNoCall ==
  env = "unset"
    => /\ calls = 0
       /\ (pc = "done" /\ ~(request.ep = "demo.create_flow" /\ request.blank))
            => SaysNotConfigured(resp)

Contains(text, sub) ==
  \E i \in 0..(Len(text) - Len(sub)) : SubSeq(text, i + 1, i + Len(sub)) = sub

C8_UpstreamFailureIsServiceError ==
  (pc = "done" /\ upstream.kind \in { "status", "neterr", "timeout" })
    => /\ resp.status = 500
       /\ upstream.kind = "status" => Contains(resp.detail, DigitsOf(upstream.code))

(***************************************************************************)
(* C9: a reply holding no parseable JSON object is answered with a         *)
(* fallback structure and never with an HTTP error, by every handler that  *)
(* parses model output.                                                    *)
(***************************************************************************)
NoParseableObject(s) == ~(HasSpan(s) /\ Parses(Span(s)))

C9_MalformedOutputRecovered ==
  (pc = "done" /\ upstream.kind = "ok" /\ NoParseableObject(upstream.text))
    => resp.status = 200 /\ IsFallback(resp.result)

(***************************************************************************)
(* C10: the answer to a request whose call timed out differs from every    *)
(* answer the same request gets when the provider replies, be the reply    *)
(* parseable or not.                                                       *)
(***************************************************************************)
C10_TimeoutIsDistinct ==
  (pc = "done" /\ upstream.kind = "timeout")
    => \A t \in ReplyTexts : Finish(request, OPENAI_API_KEY, Replied(t)) # resp

(***************************************************************************)
(* C11: every outbound call is issued with a bounded timeout of its own,   *)
(* so that no request waits on the provider without limit.                 *)
(***************************************************************************)
C11_EveryCallHasTimeout ==
  pc = "calling" =>
    /\ CallTimeout(ServiceOf(request.ep)).given
    /\ CallTimeout(ServiceOf(request.ep)).seconds > 0

\* flow['title'] and flow['sections'] can be read from the body v
CarriesTitleAndSections(v) ==
  CASE v.kind = "json" ->
         /\ IsDict(v.text)
         /\ HasKey(v.text, KeyTitle)
         /\ HasKey(v.text, KeySections)
         /\ IsList(Get(v.text, KeySections))
    [] v.kind = "fallback" -> v.name = "{template_type} Application"
    [] OTHER -> FALSE

(***************************************************************************)
(* C12: whatever text the model returned, every HTTP 200 response of       *)
(* POST /ai/create-flow of a service on port 8000 (simple_ai, main) is a   *)
(* conversation flow: an object with a 'title' and a 'sections' sequence.  *)
(***************************************************************************)
C12_CreateFlow200IsFlow ==
  (/\ pc = "done"
   /\ request.ep \in { "simple.create_flow", "main.create_flow" }
   /\ resp.status = 200)
    => CarriesTitleAndSections(resp.result)

\* the handlers that build their prompt from conversation_history
HistoryEndpoints ==
  { "main.process_response", "main.extract_decisions", "simple.extract_decisions" }

(***************************************************************************)
(* C13: a prompt built from the caller's conversation history embeds only  *)
(* a bounded tail of it, at most the last HistoryWindow exchanges; in      *)
(* process-response and in both extract-decisions handlers.                *)
(***************************************************************************)
C13_PromptEmbedsBoundedTail ==
  (pc = "calling" /\ request.ep \in HistoryEndpoints)
    => /\ EntriesIn(prompt) <= HistoryWindow
       /\ EntriesIn(prompt) = Len(LastN(request.history, HistoryWindow))

WithDocument(rq) == [rq EXCEPT !.blank = FALSE]

\* a handler of svc holding key gets as far as the provider
ReachesProvider(svc, key) == svc \in { "simple", "main" } \/ key # ""

\* the handler treated the empty document of its request as it treats a
\* document: the same prompt around the empty text, the call, and the
\* response made of the reply; or, without a usable key, the same local answer
SamePipelineAsDocument ==
  IF ReachesProvider(ServiceOf(request.ep), OPENAI_API_KEY)
  THEN /\ calls = 1
       /\ \E k \in DOMAIN prompt :
            /\ prompt[k] = Lit("")
            /\ [prompt EXCEPT ![k] = Document(WithDocument(request))]
                 = PromptText(WithDocument(request))
       /\ resp = Finish(WithDocument(request), OPENAI_API_KEY, upstream)
  ELSE /\ calls = 0
       /\ prompt = << >>
       /\ resp = AfterCall(WithDocument(request), OPENAI_API_KEY,
                           NotConfiguredText(ServiceOf(request.ep)))

(***************************************************************************)
(* C15, as claimed: a request with empty document text goes, in every      *)
(* flow-creation handler, through the same build-prompt, call-model,       *)
(* extract pipeline as one with a document, with no special case.          *)
(***************************************************************************)
C15_EmptyDocumentSamePipeline ==
  (pc = "done" /\ request.ep \in FlowEndpoints /\ request.blank)
    => SamePipelineAsDocument

(***************************************************************************)
(* C15, amended: empty document text goes through the same pipeline as a   *)
(* document in every flow-creation handler but demo_ai's create-flow,      *)
(* which answers it with the canned demo flow and calls no model.          *)
(***************************************************************************)
C15_EmptyDocumentPipelineExceptDemo ==
  (pc = "done" /\ request.ep \in FlowEndpoints /\ request.blank)
    => IF request.ep = "demo.create_flow"
       THEN /\ calls = 0
            /\ prompt = << >>
            /\ resp.status = 200
            /\ resp.fields = { "success", "message", "conversation_flow" }
            /\ resp.result.kind = "demo"
       ELSE SamePipelineAsDocument

C15_Witness ==
  /\ pc = "done"
  /\ request.ep = "working.create_flow"
  /\ request.blank
  /\ calls = 1
  /\ upstream.kind = "ok"
  /\ resp.status = 200
  /\ resp.result.kind = "json"

\* what handler h owes its caller, from h's own request and the reply to
\* h's own call, the key being the one the module read at import
OwnResponse(h) ==
  IF h.calls = 0 THEN LocalResponse(h.request, ModuleKey(env))
  ELSE Finish(h.request, ModuleKey(env), h.upstream)

(***************************************************************************)
(* C16: requests share no mutable state.  No handler writes the module's   *)
(* state, so the key stays the one read at import; and under every         *)
(* interleaving of two handlers each response is the one its own request   *)
(* and the reply to its own call determine.                                *)
(***************************************************************************)
C16_NoSharedMutableState ==
  /\ OPENAI_API_KEY = ModuleKey(env)
  /\ \A h \in { Handler, peer } :
       h.pc = "done" =>
         /\ h.resp = OwnResponse(h)
         /\ (h.calls = 1) =
              /\ ReachesProvider(ServiceOf(h.request.ep), ModuleKey(env))
              /\ ~(h.request.ep = "demo.create_flow" /\ h.request.blank)

C16_Witness ==
  /\ pc = "done"
  /\ peer.pc = "replied"
  /\ request.ep = "simple.create_flow"
  /\ peer.request.ep = "simple.extract_decisions"
  /\ upstream.kind = "ok"
  /\ peer.upstream.kind = "status"
  /\ resp.status = 200
  /\ resp = OwnResponse(Handler)

\* the request being answered ran into a failure: the history could not be
\* rendered, the call failed, or the reply holds no JSON the handler accepts
Failed ==
  \/ BuildPrompt(request).raised
  \/ upstream.kind \in { "status", "neterr", "timeout" }
  \/ upstream.kind = "ok" /\ ~Parses(upstream.text)
  \/ upstream.kind = "ok" /\ request.ep \in MainEndpoints
       /\ ~Validates(request.ep, upstream.text)

\* a JSON body: an HTTP 200 with fields, or an HTTP 500 with a 'detail' text
Structured(r) ==
  \/ r.status = 200 /\ r.fields # { }
  \/ r.status = 500 /\ r.fields = { "detail" } /\ r.detail # << >>

(***************************************************************************)
(* C17: on every failure path inside a handler (a failed call, a history   *)
(* entry lacking 'question' or 'response', output that does not parse)     *)
(* the caller gets a structured JSON response, a JSON body or an HTTP 500  *)
(* with a 'detail'; no exception leaves the handler unconverted.           *)
(***************************************************************************)
C17_FailuresAnswerStructured ==
  (pc = "done" /\ request.ep \in Endpoints /\ Failed) => Structured(resp)

C17_Witness ==
  /\ pc = "done"
  /\ request.ep = "main.process_response"
  /\ request.history = HistoryLackingQuestion(2)
  /\ calls = 0
  /\ resp = Http500(MsgFailedProcess \o MsgKeyErrorQuestion)

(***************************************************************************)
(* C18: the 'openai_configured' flag of a health response is true exactly  *)
(* when an API key was supplied through the process environment, and false *)
(* when none was.                                                          *)
(***************************************************************************)
C18_HealthFlagTellsKeySupplied ==
  (/\ pc = "done"
   /\ request.ep \in HealthEndpoints
   /\ "openai_configured" \in resp.fields)
    => (resp.openai_configured = "true") = (env = "set")

\* the question types of the data model
QuestionTypes == { "text", "select", "multiselect", "yesno", "email", "textarea" }

\* no two entries of the sequence xs of records carry the same id
UniqueIds(xs) == \A i, j \in DOMAIN xs : xs[i].id = xs[j].id => i = j

ValidQuestion(q) ==
  /\ q.object
  /\ { "id", "text", "type" } \subseteq q.keys
  /\ q.type \in QuestionTypes
  /\ "options" \in q.keys => q.type \in { "select", "multiselect" }

ValidSection(s) ==
  /\ { "id", "title" } \subseteq s.keys
  /\ \A n \in DOMAIN s.questions : ValidQuestion(s.questions[n])
  /\ UniqueIds(s.questions)

ValidFlow(f) ==
  /\ { "title", "sections" } \subseteq f.keys
  /\ \A n \in DOMAIN f.sections : ValidSection(f.sections[n])
  /\ UniqueIds(f.sections)

(***************************************************************************)
(* C19: every fallback structure a flow-creation handler substitutes for   *)
(* unparseable output is a valid conversation flow: it has a title; each   *)
(* section has an id unique in the flow and a title; each question has an  *)
(* id unique in its section, a text and a type of the data model; options  *)
(* appear only on select and multiselect questions.                        *)
(***************************************************************************)
C19_FallbackIsValidFlow ==
  (Extracted /\ request.ep \in FlowEndpoints /\ IsFallback(resp.result))
    => ValidFlow(Structure(resp.result))

(***************************************************************************)
(* C20: whatever text the model returns, the result a tolerant handler     *)
(* hands back is its fallback structure or a JSON object, never a bare     *)
(* array, string, number, boolean or null.                                 *)
(***************************************************************************)
C20_ResultIsFallbackOrObject ==
  Extracted =>
    \/ IsFallback(resp.result)
    \/ resp.result.kind = "json" /\ IsDict(resp.result.text)

\* "OpenAI Error: <code>" / "OpenAI API Error: <code>": the status alone
StatusOnlyText(svc, code) ==
  IF svc = "working" THEN MsgWorkingStatus \o DigitsOf(code)
  ELSE MsgDemoStatus \o DigitsOf(code)

(***************************************************************************)
(* C21: in working_ai and demo_ai a non-200 reply of the provider becomes  *)
(* an error text carrying only the status code, which goes through the     *)
(* extractor as if it were model output: whatever the error body, the      *)
(* handler answers success=true with its no-brace-pair fallback, and never *)
(* with a value parsed from the body.                                      *)
(***************************************************************************)
C21_ErrorStatusYieldsFallback ==
  (/\ pc = "done"
   /\ upstream.kind = "status"
   /\ ServiceOf(request.ep) \in { "working", "demo" })
    => /\ resp.status = 200
       /\ resp.success = "true"
       /\ resp.result =
            IF request.ep = "working.create_flow" THEN Hardcoded("Converted Flow", "")
            ELSE Hardcoded("Adopt-A-Highway Program Setup", "")
       /\ "ai_response_preview" \in resp.fields =>
            resp.preview = StatusOnlyText(ServiceOf(request.ep), upstream.code)

C21_Witness ==
  /\ pc = "done"
  /\ upstream.kind = "status"
  /\ upstream.text = << "{", "}" >>
  /\ request.ep = "working.create_flow"
  /\ resp.success = "true"
  /\ resp.result = Hardcoded("Converted Flow", "")

IsQuestionPiece(c) == c.lit = "{question}"

\* the exchanges whose question a prompt embeds, in the prompt's order
QuestionsIn(p) ==
  LET qs == SelectSeq(p, IsQuestionPiece)
  IN  [i \in DOMAIN qs |-> qs[i].n]

\* every "Q: " of the prompt is followed by a question, "\nA: " and the
\* response of the same exchange
QuestionThenResponse(p) ==
  \A j \in DOMAIN p :
    p[j] = Lit("Q: ") =>
      /\ j + 3 <= Len(p)
      /\ p[j + 1].lit = "{question}"
      /\ p[j + 2] = Lit("\nA: ")
      /\ p[j + 3].lit = "{response}"
      /\ p[j + 3].n = p[j + 1].n

\* exchanges n - k + 1 .. n, for k the smaller of 5 and n
LastFiveOf(n) ==
  LET k == IF n < 5 THEN n ELSE 5
  IN  [i \in 1..k |-> n - k + i]

(***************************************************************************)
(* C22: the prompt of process-response embeds exactly the last min(5, n)   *)
(* entries of an n-entry history, in their order, each as its question     *)
(* followed by its response; older entries never appear, and a history of  *)
(* five entries or fewer is embedded whole.                                *)
(***************************************************************************)
C22_PromptEmbedsLastFive ==
  (pc = "calling" /\ request.ep = "main.process_response")
    => /\ QuestionsIn(prompt) = LastFiveOf(Len(request.history))
       /\ EntriesIn(prompt) = Len(QuestionsIn(prompt))
       /\ QuestionThenResponse(prompt)

C22_Witness ==
  /\ pc = "calling"
  /\ request.ep = "main.process_response"
  /\ Len(request.history) = 6
  /\ QuestionsIn(prompt) = << 2, 3, 4, 5, 6 >>

(***************************************************************************)
(* C23: in demo_ai's create-flow, for a request with a document that is    *)
(* answered success=true, 'ai_used' is true exactly when an outbound call  *)
(* was attempted for the request, whether the flow returned is the model's *)
(* output or the fallback.                                                 *)
(***************************************************************************)
C23_AiUsedTellsCallAttempted ==
  (/\ pc = "done"
   /\ request.ep = "demo.create_flow"
   /\ ~request.blank
   /\ resp.success = "true")
    => /\ resp.ai_used \in { "true", "false" }
       /\ (resp.ai_used = "true") = (calls = 1)

C23_Witness ==
  /\ pc = "done"
  /\ request.ep = "demo.create_flow"
  /\ ~request.blank
  /\ resp.success = "true"
  /\ calls = 1
  /\ upstream.kind = "ok"
  /\ resp.result = Hardcoded("Adopt-A-Highway Program Setup", "")
  /\ resp.ai_used = "true"

\* L: 300 in working_ai create-flow, 200 in demo_ai convert-document
PreviewLimit(ep) == IF ep = "working.create_flow" THEN 300 ELSE 200

(***************************************************************************)
(* C24: 'ai_response_preview' is the whole reply when the reply has at     *)
(* most L characters, and otherwise its first L characters followed by     *)
(* '...'; so it is never longer than L + 3 characters, and a reply of      *)
(* exactly L characters comes back unmarked.                               *)
(***************************************************************************)
C24_PreviewIsBoundedPrefix ==
  (Extracted /\ "ai_response_preview" \in resp.fields)
    => /\ request.ep \in { "working.create_flow", "demo.convert_document" }
       /\ Len(resp.preview) <= PreviewLimit(request.ep) + 3
       /\ IF Len(upstream.text) <= PreviewLimit(request.ep)
          THEN resp.preview = upstream.text
          ELSE /\ Len(resp.preview) = PreviewLimit(request.ep) + 3
               /\ \A i \in 1..PreviewLimit(request.ep) :
                    resp.preview[i] = upstream.text[i]
               /\ \A i \in 1..3 : resp.preview[PreviewLimit(request.ep) + i] = "."

C24_Witness ==
  /\ Extracted
  /\ request.ep = "demo.convert_document"
  /\ Len(upstream.text) = 201
  /\ Len(resp.preview) = 203
  /\ resp.preview[200] = upstream.text[200]
  /\ resp.preview[201] = "."

\* 'share_' followed by exactly five decimal digits
IsShareId(id) ==
  /\ Len(id) = Len(MsgSharePrefix) + 5
  /\ SubSeq(id, 1, Len(MsgSharePrefix)) = MsgSharePrefix
  /\ \A i \in (Len(MsgSharePrefix) + 1)..Len(id) : id[i] \in Digits

EndsWith(s, t) == Len(s) >= Len(t) /\ SubSeq(s, Len(s) - Len(t) + 1, Len(s)) = t

\* the payload GET /shared/{share_id} gives for a path, whatever was issued
StaticPayload(id) ==
  [NoResp EXCEPT !.status = 200, !.fields = { "message", "note", "demo" },
                 !.message = MsgSharedConversation \o id]

=============================================================================
